---- MODULE Spec2Model ----
\* Model of gray_remover.py: the grayscale classifier is_grayscale and the
\* dataset pass process_dataset, over an abstract filesystem holding the
\* dataset tree and the backup tree.
EXTENDS Integers, Sequences, FiniteSets, TLC

\* ------------------------------------------------------------------ bounds
\* At most MaxFiles entries in the dataset tree of an initial state.
MaxFiles == 2
\* At most MaxRuns invocations of process_dataset in sequence.
MaxRuns == 2

\* ------------------------------------------------- constants of the program
\* `min(100, len(pixels))`
SampleLimit == 100

\* `for split in ['train', 'val']`
Splits == <<"train", "val">>

\* `for category in ['rainy', 'cloudy', 'sunshine', 'sunrise']`
Categories == <<"rainy", "cloudy", "sunshine", "sunrise">>

\* valid_extensions, each a sequence of characters
valid_extensions ==
    { <<".", "j", "p", "g">>, <<".", "j", "p", "e", "g">>, <<".", "p", "n", "g">>,
      <<".", "b", "m", "p">>, <<".", "t", "i", "f", "f">>, <<".", "g", "i", "f">>,
      <<".", "w", "e", "b", "p">> }

\* ------------------------------------------------------------ small helpers
Min(a, b) == IF a <= b THEN a ELSE b

MaxOf(S) == CHOOSE x \in S : \A y \in S : y <= x

UpperLetters ==
    <<"A", "B", "C", "D", "E", "F", "G", "H", "I", "J", "K", "L", "M",
      "N", "O", "P", "Q", "R", "S", "T", "U", "V", "W", "X", "Y", "Z">>

LowerLetters ==
    <<"a", "b", "c", "d", "e", "f", "g", "h", "i", "j", "k", "l", "m",
      "n", "o", "p", "q", "r", "s", "t", "u", "v", "w", "x", "y", "z">>

UpperSet == { UpperLetters[k] : k \in 1..Len(UpperLetters) }

LowerOf ==
    [ch \in UpperSet |->
        LowerLetters[CHOOSE k \in 1..Len(UpperLetters) : UpperLetters[k] = ch]]

\* str.lower() on one character
LowerChar(ch) == IF ch \in UpperSet THEN LowerOf[ch] ELSE ch

\* str.lower()
lower(s) == [i \in 1..Len(s) |-> LowerChar(s[i])]

\* os.path.splitext(filename)[1]: the text from the last dot on, unless only
\* dots precede that dot (a leading dot starts no extension).
splitext(filename) ==
    LET dots == {i \in 1..Len(filename) : filename[i] = "."}
        d == IF dots = {} THEN 0 ELSE MaxOf(dots)
    IN IF d > 0 /\ (\E i \in 1..(d - 1) : filename[i] # ".")
       THEN SubSeq(filename, d, Len(filename))
       ELSE <<>>

\* `file_ext in valid_extensions` after lower()
HasValidExtension(filename) == lower(splitext(filename)) \in valid_extensions

\* --------------------------------------------------------------- is_grayscale
\* An image file is [decodable, mode, data]: data holds one tuple per pixel in
\* raster order, <<r, g, b>> for mode RGB, <<r, g, b, a>> for RGBA, <<v>> for L.

\* img.convert('RGB') on one pixel
ConvertPixel(mode, p) ==
    CASE mode = "RGB" -> p
      [] mode = "RGBA" -> <<p[1], p[2], p[3]>>
      [] mode = "L" -> <<p[1], p[1], p[1]>>

\* list(rgb_img.getdata())
Pixels(im) == [i \in 1..Len(im.data) |-> ConvertPixel(im.mode, im.data[i])]

SampleSizeAll(pixels) == Len(pixels)

\* sample_size = min(100, len(pixels))
SampleSize(pixels) == Min(SampleLimit, Len(pixels))

\* `r != g or g != b` on pixels[i]
ChannelsDiffer(pixels, i) ==
    LET r == pixels[i + 1][1]
        g == pixels[i + 1][2]
        b == pixels[i + 1][3]
    IN r # g \/ g # b

\* The iterations lo .. hi - 1 of the loop `for i in range(sample_size)`, in
\* order: FALSE at the first pixel whose channels differ, TRUE when the
\* iterations end without one. (Halving the range keeps the evaluation
\* shallow; the left half is decided before the right one is looked at.)
RECURSIVE ScanPixels(_, _, _)
ScanPixels(pixels, lo, hi) ==
    IF lo >= hi
    THEN TRUE
    ELSE IF hi = lo + 1
         THEN ~ChannelsDiffer(pixels, lo)
         ELSE LET mid == (lo + hi) \div 2
              IN ScanPixels(pixels, lo, mid) /\ ScanPixels(pixels, mid, hi)

IsGrayscaleFailClosed(im) ==
    IF ~im.decodable THEN TRUE
    ELSE ScanPixels(Pixels(im), 0, SampleSize(Pixels(im)))

\* is_grayscale(img_path), on the content of the file at img_path; a
\* decoding failure is caught and gives False.
is_grayscale(im) ==
    IF ~im.decodable
    THEN FALSE
    ELSE ScanPixels(Pixels(im), 0, SampleSize(Pixels(im)))

\* ------------------------------------------------------------------- inputs
\* File names, as sequences of characters.
A_PNG == <<"a", ".", "p", "n", "g">>
B_JPG == <<"b", ".", "J", "P", "G">>
C_TXT == <<"c", ".", "t", "x", "t">>

\* Image contents used in the dataset and backup trees.
GrayImg == [decodable |-> TRUE, mode |-> "L", data |-> <<<<5>>, <<7>>>>]
ColorImg == [decodable |-> TRUE, mode |-> "RGB", data |-> <<<<3, 3, 3>>, <<1, 2, 2>>>>]
CorruptImg == [decodable |-> FALSE, mode |-> "RGB", data |-> <<>>]
OldBackupImg == [decodable |-> TRUE, mode |-> "L", data |-> <<<<9>>>>]

\* The entries a category directory may hold: [name, kind, content, locked].
\* A locked file is one the operating system refuses to unlink or rename
\* (os.remove and os.rename raise PermissionError); it can still be read.
\* The content of a sub-directory stands for the file inside it.
SampleEntries ==
    { [name |-> A_PNG, kind |-> "file", content |-> GrayImg, locked |-> FALSE],
      [name |-> A_PNG, kind |-> "file", content |-> GrayImg, locked |-> TRUE],
      [name |-> A_PNG, kind |-> "file", content |-> ColorImg, locked |-> FALSE],
      [name |-> A_PNG, kind |-> "file", content |-> CorruptImg, locked |-> FALSE],
      [name |-> A_PNG, kind |-> "dir", content |-> GrayImg, locked |-> FALSE],
      [name |-> B_JPG, kind |-> "file", content |-> GrayImg, locked |-> FALSE],
      [name |-> C_TXT, kind |-> "file", content |-> GrayImg, locked |-> FALSE] }

\* The category directories that hold entries in an initial state.
PopulatedDirs == { <<"train", "rainy">>, <<"val", "sunrise">> }

Entry(d, x) ==
    [split |-> d[1], category |-> d[2], name |-> x.name, kind |-> x.kind,
     content |-> x.content, locked |-> x.locked]

SamePath(e, f) ==
    e.split = f.split /\ e.category = f.category /\ e.name = f.name

\* The dataset trees: at most MaxFiles entries, no two at one path.
Datasets ==
    { F \in SUBSET { Entry(d, x) : d \in PopulatedDirs, x \in SampleEntries } :
        /\ Cardinality(F) <= MaxFiles
        /\ \A e \in F : \A f \in F : SamePath(e, f) => e = f }

\* Directories of the dataset tree: <<split>> and <<split, category>>.
AllDirs ==
    { <<Splits[i]>> : i \in 1..Len(Splits) }
      \cup { <<Splits[i], Categories[j]>> : i \in 1..Len(Splits), j \in 1..Len(Categories) }

\* Which directories are missing from the dataset root.
MissingLayouts ==
    { {}, { <<"train">> }, { <<"val">> }, { <<"train", "cloudy">> },
      { <<"val", "rainy">> } }

\* A directory is present when neither it nor its split directory is missing.
PresentDirs(missing) ==
    { d \in AllDirs : d \notin missing /\ <<d[1]>> \notin missing }

BackupFile(d, n, im) ==
    [split |-> d[1], category |-> d[2], name |-> n, content |-> im]

\* The files an earlier run may have left in the backup tree.
OldBackupFiles ==
    { BackupFile(<<"train", "rainy">>, A_PNG, OldBackupImg),
      BackupFile(<<"val", "sunrise">>, B_JPG, OldBackupImg) }

\* The backup tree before the first run: absent, an empty root, or a root
\* holding one file left by an earlier run.
BackupLayouts ==
    { [dirs |-> {}, files |-> {}], [dirs |-> { <<>> }, files |-> {}] }
      \cup { [dirs |-> { <<>>, <<b.split>>, <<b.split, b.category>> }, files |-> { b }] :
                b \in OldBackupFiles }

\* -------------------------------------------------------------------- state
VARIABLES
    backup_folder,      \* argument: "None" or "backup"
    dry_run,            \* argument
    dirs,               \* directories present under the dataset root
    files,              \* entries of the category directories
    bkDirs,             \* directories present at and under the backup path
    bkFiles,            \* files under the backup path
    pc,                 \* position in process_dataset
    si,                 \* index of the split of the outer loop
    ci,                 \* index of the category of the inner loop
    listing,            \* names of os.listdir(category_path) not yet visited
    category_processed,
    category_removed,
    total_processed,
    total_removed,
    stdout,             \* the lines printed by this run
    img,                \* the image last handed to is_grayscale
    returned,           \* whether is_grayscale has returned for img
    result,             \* what it returned
    run,                \* number of the current invocation
    files0,             \* files when the current run started
    bkDirs0,            \* bkDirs when the current run started
    bkFiles0,           \* bkFiles when the current run started
    prevCompleted,      \* whether the previous run reached its end
    prevRemoved         \* the total_removed the previous run ended with

vars ==
    <<backup_folder, dry_run, dirs, files, bkDirs, bkFiles, pc, si, ci, listing,
      category_processed, category_removed, total_processed, total_removed,
      stdout, img, returned, result, run, files0, bkDirs0, bkFiles0, prevCompleted,
      prevRemoved>>

\* One printed line.
Line(kind, s, c, n, p, r) ==
    [kind |-> kind, split |-> s, category |-> c, name |-> n, processed |-> p,
     removed |-> r]

Init ==
    /\ backup_folder \in {"None", "backup"}
    /\ dry_run \in BOOLEAN
    /\ \E m \in MissingLayouts : dirs = PresentDirs(m)
    /\ files \in Datasets
    /\ \A e \in files : <<e.split, e.category>> \in dirs
    /\ \E b \in BackupLayouts :
          /\ backup_folder = "None" => b.dirs = {}
          /\ bkDirs = b.dirs
          /\ bkFiles = b.files
    /\ pc = "start"
    /\ si = 1
    /\ ci = 1
    /\ listing = {}
    /\ category_processed = 0
    /\ category_removed = 0
    /\ total_processed = 0
    /\ total_removed = 0
    /\ stdout = {}
    /\ img = CorruptImg
    /\ returned = FALSE
    /\ result = FALSE
    /\ run = 1
    /\ files0 = files
    /\ bkDirs0 = bkDirs
    /\ bkFiles0 = bkFiles
    /\ prevCompleted = FALSE
    /\ prevRemoved = 0

\* ------------------------------------------------------------ process_dataset
CurSplit == Splits[si]

CurCategory == Categories[ci]

\* The entry of the current category directory named filename.
EntryAt(filename) ==
    CHOOSE e \in files :
        e.split = CurSplit /\ e.category = CurCategory /\ e.name = filename

\* The arguments and the dataset directories never change during a run.
ArgsUnchanged == UNCHANGED <<backup_folder, dry_run, dirs, run, files0, bkDirs0,
                            bkFiles0, prevCompleted, prevRemoved>>

ClassifierUnchanged == UNCHANGED <<img, returned, result>>

\* The call is_grayscale(file_path) of the file loop.
Classify(e) ==
    /\ img' = e.content
    /\ returned' = TRUE
    /\ result' = is_grayscale(e.content)

\* The diagnostic is_grayscale prints when decoding fails.
Diagnostics(e) ==
    IF e.content.decodable
    THEN {}
    ELSE { Line("error", e.split, e.category, e.name, 0, 0) }

\* Lines 47-52: create the backup folder, zero the totals.
StartKeepsBackup ==
    /\ pc = "start"
    /\ bkDirs' = bkDirs
    /\ total_removed' = 0
    /\ total_processed' = 0
    /\ pc' = "split"
    /\ si' = 1
    /\ UNCHANGED <<files, bkFiles, ci, listing, category_processed,
                   category_removed, stdout>>
    /\ ClassifierUnchanged
    /\ ArgsUnchanged

Start ==
    /\ pc = "start"
    /\ bkDirs' = IF backup_folder # "None" /\ ~dry_run
                 THEN bkDirs \cup { <<>> }
                 ELSE bkDirs
    /\ total_removed' = 0
    /\ total_processed' = 0
    /\ pc' = "split"
    /\ si' = 1
    /\ UNCHANGED <<files, bkFiles, ci, listing, category_processed,
                   category_removed, stdout>>
    /\ ClassifierUnchanged
    /\ ArgsUnchanged

\* Lines 59-62: the split directory is missing.
WarnMissingSplit ==
    /\ pc = "split"
    /\ si <= Len(Splits)
    /\ <<CurSplit>> \notin dirs
    /\ stdout' = stdout \cup { Line("warning", CurSplit, "-", <<>>, 0, 0) }
    /\ si' = si + 1
    /\ UNCHANGED <<files, bkDirs, bkFiles, pc, ci, listing, category_processed,
                   category_removed, total_processed, total_removed>>
    /\ ClassifierUnchanged
    /\ ArgsUnchanged

\* Lines 59-64: the split directory exists; enter the category loop.
EnterSplit ==
    /\ pc = "split"
    /\ si <= Len(Splits)
    /\ <<CurSplit>> \in dirs
    /\ pc' = "category"
    /\ ci' = 1
    /\ UNCHANGED <<files, bkDirs, bkFiles, si, listing, category_processed,
                   category_removed, total_processed, total_removed, stdout>>
    /\ ClassifierUnchanged
    /\ ArgsUnchanged

\* The next iteration of the category loop, or of the split loop after the
\* last category.
NextCategory ==
    IF ci < Len(Categories)
    THEN pc' = "category" /\ ci' = ci + 1 /\ si' = si
    ELSE pc' = "split" /\ ci' = 1 /\ si' = si + 1

WarnMissingCategoryBreaks ==
    /\ pc = "category"
    /\ <<CurSplit, CurCategory>> \notin dirs
    /\ stdout' = stdout \cup { Line("warning", CurSplit, CurCategory, <<>>, 0, 0) }
    /\ pc' = "split" /\ ci' = 1 /\ si' = si + 1
    /\ UNCHANGED <<files, bkDirs, bkFiles, listing, category_processed,
                   category_removed, total_processed, total_removed>>
    /\ ClassifierUnchanged
    /\ ArgsUnchanged

\* Lines 65-68: the category directory is missing.
WarnMissingCategory ==
    /\ pc = "category"
    /\ <<CurSplit, CurCategory>> \notin dirs
    /\ stdout' = stdout \cup { Line("warning", CurSplit, CurCategory, <<>>, 0, 0) }
    /\ NextCategory
    /\ UNCHANGED <<files, bkDirs, bkFiles, listing, category_processed,
                   category_removed, total_processed, total_removed>>
    /\ ClassifierUnchanged
    /\ ArgsUnchanged

\* Lines 65-75: the category directory exists; list it.
EnterCategory ==
    /\ pc = "category"
    /\ <<CurSplit, CurCategory>> \in dirs
    /\ category_processed' = 0
    /\ category_removed' = 0
    /\ listing' = { e.name : e \in { f \in files : f.split = CurSplit
                                                  /\ f.category = CurCategory } }
    /\ pc' = "file"
    /\ UNCHANGED <<files, bkDirs, bkFiles, si, ci, total_processed,
                   total_removed, stdout>>
    /\ ClassifierUnchanged
    /\ ArgsUnchanged

SkipDirectoryRemoves ==
    /\ pc = "file"
    /\ \E filename \in listing :
          /\ EntryAt(filename).kind = "dir"
          /\ listing' = listing \ {filename}
          /\ files' = IF dry_run THEN files ELSE files \ { EntryAt(filename) }
    /\ UNCHANGED <<bkDirs, bkFiles, pc, si, ci, category_processed,
                   category_removed, total_processed, total_removed, stdout>>
    /\ ClassifierUnchanged
    /\ ArgsUnchanged

\* Lines 79-80: `if os.path.isdir(file_path): continue`
SkipDirectory ==
    /\ pc = "file"
    /\ \E filename \in listing :
          /\ EntryAt(filename).kind = "dir"
          /\ listing' = listing \ {filename}
    /\ UNCHANGED <<files, bkDirs, bkFiles, pc, si, ci, category_processed,
                   category_removed, total_processed, total_removed, stdout>>
    /\ ClassifierUnchanged
    /\ ArgsUnchanged

\* Lines 82-84: `if file_ext not in valid_extensions: continue`
SkipNonImage ==
    /\ pc = "file"
    /\ \E filename \in listing :
          /\ EntryAt(filename).kind # "dir"
          /\ ~HasValidExtension(filename)
          /\ listing' = listing \ {filename}
    /\ UNCHANGED <<files, bkDirs, bkFiles, pc, si, ci, category_processed,
                   category_removed, total_processed, total_removed, stdout>>
    /\ ClassifierUnchanged
    /\ ArgsUnchanged

\* The entry named filename reaches line 86 and is_grayscale returns `gray`.
Classified(filename, gray) ==
    /\ pc = "file"
    /\ filename \in listing
    /\ EntryAt(filename).kind # "dir"
    /\ HasValidExtension(filename)
    /\ is_grayscale(EntryAt(filename).content) = gray
    /\ Classify(EntryAt(filename))
    /\ category_processed' = category_processed + 1
    /\ listing' = listing \ {filename}

\* Lines 86-89: the image is not grayscale; nothing is done to it.
KeepNotGrayscale ==
    /\ \E filename \in listing :
          /\ Classified(filename, FALSE)
          /\ stdout' = stdout \cup Diagnostics(EntryAt(filename))
    /\ UNCHANGED <<files, bkDirs, bkFiles, pc, si, ci, category_removed,
                   total_processed, total_removed>>
    /\ ArgsUnchanged

WouldRemoveDeletes ==
    /\ dry_run
    /\ \E filename \in listing :
          /\ Classified(filename, TRUE)
          /\ category_removed' = category_removed + 1
          /\ stdout' = stdout \cup
                { Line("would_remove", CurSplit, CurCategory, filename, 0, 0) }
          /\ files' = files \ { EntryAt(filename) }
    /\ UNCHANGED <<bkDirs, bkFiles, pc, si, ci, total_processed, total_removed>>
    /\ ArgsUnchanged

\* Lines 90-92: dry run, "Would remove".
WouldRemove ==
    /\ dry_run
    /\ \E filename \in listing :
          /\ Classified(filename, TRUE)
          /\ category_removed' = category_removed + 1
          /\ stdout' = stdout \cup
                { Line("would_remove", CurSplit, CurCategory, filename, 0, 0) }
    /\ UNCHANGED <<files, bkDirs, bkFiles, pc, si, ci, total_processed,
                   total_removed>>
    /\ ArgsUnchanged

MakeBackupDirsEager ==
    bkDirs \cup { <<>>, <<CurSplit>> }
      \cup { <<CurSplit, Categories[j]>> : j \in 1..Len(Categories) }

\* os.makedirs(backup_category_path, exist_ok=True)
MakeBackupDirs == bkDirs \cup { <<>>, <<CurSplit>>, <<CurSplit, CurCategory>> }

\* The backup files once e's content is written at backup/split/category/name:
\* os.rename, and shutil's copy when the rename fails, replace a file there.
WrittenToBackup(e) ==
    { b \in bkFiles : ~SamePath(b, e) }
      \cup { [split |-> e.split, category |-> e.category, name |-> e.name,
              content |-> e.content] }

MoveToBackupCopies ==
    /\ ~dry_run
    /\ backup_folder # "None"
    /\ \E filename \in listing :
          /\ Classified(filename, TRUE)
          /\ ~EntryAt(filename).locked
          /\ category_removed' = category_removed + 1
          /\ stdout' = stdout \cup
                { Line("moving", CurSplit, CurCategory, filename, 0, 0) }
          /\ bkDirs' = MakeBackupDirs
          /\ bkFiles' = WrittenToBackup(EntryAt(filename))
    /\ UNCHANGED <<files, pc, si, ci, total_processed, total_removed>>
    /\ ArgsUnchanged

\* Lines 94-101: move the grayscale image to the backup folder.
MoveToBackup ==
    /\ ~dry_run
    /\ backup_folder # "None"
    /\ \E filename \in listing :
          /\ Classified(filename, TRUE)
          /\ ~EntryAt(filename).locked
          /\ category_removed' = category_removed + 1
          /\ stdout' = stdout \cup
                { Line("moving", CurSplit, CurCategory, filename, 0, 0) }
          /\ bkDirs' = MakeBackupDirs
          /\ bkFiles' = WrittenToBackup(EntryAt(filename))
          /\ files' = files \ { EntryAt(filename) }
    /\ UNCHANGED <<pc, si, ci, total_processed, total_removed>>
    /\ ArgsUnchanged

\* Lines 94-101 on a locked file: os.rename fails, shutil.move copies the file
\* to the destination, os.unlink raises, and the exception leaves
\* process_dataset.
MoveFails ==
    /\ ~dry_run
    /\ backup_folder # "None"
    /\ \E filename \in listing :
          /\ Classified(filename, TRUE)
          /\ EntryAt(filename).locked
          /\ category_removed' = category_removed + 1
          /\ stdout' = stdout \cup
                { Line("moving", CurSplit, CurCategory, filename, 0, 0) }
          /\ bkDirs' = MakeBackupDirs
          /\ bkFiles' = WrittenToBackup(EntryAt(filename))
    /\ pc' = "aborted"
    /\ UNCHANGED <<files, si, ci, total_processed, total_removed>>
    /\ ArgsUnchanged

RemoveFileKeeps ==
    /\ ~dry_run
    /\ backup_folder = "None"
    /\ \E filename \in listing :
          /\ Classified(filename, TRUE)
          /\ ~EntryAt(filename).locked
          /\ category_removed' = category_removed + 1
          /\ stdout' = stdout \cup
                { Line("removing", CurSplit, CurCategory, filename, 0, 0) }
    /\ UNCHANGED <<files, bkDirs, bkFiles, pc, si, ci, total_processed, total_removed>>
    /\ ArgsUnchanged

\* Lines 102-104: delete the grayscale image.
RemoveFile ==
    /\ ~dry_run
    /\ backup_folder = "None"
    /\ \E filename \in listing :
          /\ Classified(filename, TRUE)
          /\ ~EntryAt(filename).locked
          /\ category_removed' = category_removed + 1
          /\ stdout' = stdout \cup
                { Line("removing", CurSplit, CurCategory, filename, 0, 0) }
          /\ files' = files \ { EntryAt(filename) }
    /\ UNCHANGED <<bkDirs, bkFiles, pc, si, ci, total_processed, total_removed>>
    /\ ArgsUnchanged

\* Lines 102-104 on a locked file: os.remove raises, and the exception leaves
\* process_dataset.
RemoveFails ==
    /\ ~dry_run
    /\ backup_folder = "None"
    /\ \E filename \in listing :
          /\ Classified(filename, TRUE)
          /\ EntryAt(filename).locked
          /\ category_removed' = category_removed + 1
          /\ stdout' = stdout \cup
                { Line("removing", CurSplit, CurCategory, filename, 0, 0) }
    /\ pc' = "aborted"
    /\ UNCHANGED <<files, bkDirs, bkFiles, si, ci, total_processed, total_removed>>
    /\ ArgsUnchanged

\* Lines 106-109: the category's summary line and the totals.
EndCategory ==
    /\ pc = "file"
    /\ listing = {}
    /\ stdout' = stdout \cup
          { Line("summary", CurSplit, CurCategory, <<>>, category_processed,
                 category_removed) }
    /\ total_processed' = total_processed + category_processed
    /\ total_removed' = total_removed + category_removed
    /\ NextCategory
    /\ UNCHANGED <<files, bkDirs, bkFiles, listing, category_processed,
                   category_removed>>
    /\ ClassifierUnchanged
    /\ ArgsUnchanged

\* Lines 111-118: the dataset summary.
Finish ==
    /\ pc = "split"
    /\ si > Len(Splits)
    /\ stdout' = stdout \cup
          { Line("dataset_summary", "-", "-", <<>>, total_processed, total_removed) }
    /\ pc' = "done"
    /\ UNCHANGED <<files, bkDirs, bkFiles, si, ci, listing, category_processed,
                   category_removed, total_processed, total_removed>>
    /\ ClassifierUnchanged
    /\ ArgsUnchanged

\* Lines 121-133: the script is run again, with the same arguments, on the
\* trees the previous run left.
RunAgain ==
    /\ pc \in {"done", "aborted"}
    /\ run < MaxRuns
    /\ run' = run + 1
    /\ prevCompleted' = (pc = "done")
    /\ prevRemoved' = total_removed
    /\ files0' = files
    /\ bkDirs0' = bkDirs
    /\ bkFiles0' = bkFiles
    /\ pc' = "start"
    /\ si' = 1
    /\ ci' = 1
    /\ listing' = {}
    /\ category_processed' = 0
    /\ category_removed' = 0
    /\ total_processed' = 0
    /\ total_removed' = 0
    /\ stdout' = {}
    /\ returned' = FALSE
    /\ UNCHANGED <<backup_folder, dry_run, dirs, files, bkDirs, bkFiles, img, result>>

Next ==
    \/ Start
    \/ WarnMissingSplit
    \/ EnterSplit
    \/ WarnMissingCategory
    \/ EnterCategory
    \/ SkipDirectory
    \/ SkipNonImage
    \/ KeepNotGrayscale
    \/ WouldRemove
    \/ MoveToBackup
    \/ MoveFails
    \/ RemoveFile
    \/ RemoveFails
    \/ EndCategory
    \/ Finish
    \/ RunAgain

Spec == Init /\ [][Next]_vars

\* --------------------------------------------- is_grayscale on its own inputs
\* A second specification: one call of is_grayscale on an image drawn from
\* ImageCatalog, outside any dataset.

\* Pixel counts around the sample limit.
CatalogLengths == { 1, 2, 99, 100, 101, 151 }

\* Raster positions (from 0) where a catalog image may hold a coloured pixel.
CatalogPositions == { 0, 99, 100, 150 }

\* Coloured pixels: r # g only, g # b only, r = b # g, all different.
ColouredPixels == { <<1, 0, 0>>, <<0, 0, 1>>, <<1, 0, 1>>, <<0, 1, 2>> }

RGBImage(n, at, px) ==
    [decodable |-> TRUE, mode |-> "RGB",
     data |-> [i \in 1..n |-> IF (i - 1) \in at THEN px ELSE <<7, 7, 7>>]]

ImageCatalog ==
    { RGBImage(n, at, px) :
        n \in CatalogLengths, at \in SUBSET CatalogPositions, px \in ColouredPixels }
      \cup { [decodable |-> TRUE, mode |-> "L", data |-> [i \in 1..n |-> <<i>>]] :
                n \in CatalogLengths }
      \cup { [decodable |-> TRUE, mode |-> "RGBA",
               data |-> [i \in 1..n |-> IF i = n THEN px ELSE <<7, 7, 7, 255>>]] :
                n \in CatalogLengths,
                px \in { <<7, 7, 7, 0>>, <<7, 7, 8, 8>>, <<8, 7, 7, 7>> } }
      \cup { CorruptImg, GrayImg, ColorImg }

InitClassify ==
    /\ img \in ImageCatalog
    /\ returned = FALSE
    /\ result = FALSE
    /\ pc = "classify"
    /\ backup_folder = "None"
    /\ dry_run = TRUE
    /\ dirs = {}
    /\ files = {}
    /\ bkDirs = {}
    /\ bkFiles = {}
    /\ si = 1
    /\ ci = 1
    /\ listing = {}
    /\ category_processed = 0
    /\ category_removed = 0
    /\ total_processed = 0
    /\ total_removed = 0
    /\ stdout = {}
    /\ run = 1
    /\ files0 = {}
    /\ bkDirs0 = {}
    /\ bkFiles0 = {}
    /\ prevCompleted = FALSE
    /\ prevRemoved = 0

\* Lines 7-33: one call of is_grayscale.
ClassifyImage ==
    /\ pc = "classify"
    /\ result' = is_grayscale(img)
    /\ returned' = TRUE
    /\ stdout' = IF img.decodable THEN stdout
                 ELSE stdout \cup { Line("error", "-", "-", <<>>, 0, 0) }
    /\ pc' = "classified"
    /\ UNCHANGED <<img, files, bkDirs, bkFiles, si, ci, listing, category_processed,
                   category_removed, total_processed, total_removed>>
    /\ ArgsUnchanged

NextClassify == ClassifyImage

SpecClassify == InitClassify /\ [][NextClassify]_vars

\* ------------------------------------------------------------------ properties
\* The files of F that reach the classifier: regular files with a valid
\* image extension.
ImageFiles(F) == { e \in F : e.kind = "file" /\ HasValidExtension(e.name) }

\* The files of F that the classifier flags.
Flagged(F) == { e \in ImageFiles(F) : is_grayscale(e.content) }

InDir(F, s, c) == { e \in F : e.split = s /\ e.category = c }

\* The printed lines that report an action on a file.
ActionLines == { l \in stdout : l.kind \in {"would_remove", "moving", "removing"} }

ActionLineFor(e) ==
    \E l \in ActionLines :
        l.split = e.split /\ l.category = e.category /\ l.name = e.name

DatasetSummary(p, r) == Line("dataset_summary", "-", "-", <<>>, p, r)

\* The category directories the run can visit.
VisitableDirs == { d \in dirs : Len(d) = 2 /\ <<d[1]>> \in dirs }

\* The split directories that are missing, and the category directories
\* missing from the splits that exist.
MissingDirs ==
    { d \in AllDirs \ dirs : Len(d) = 1 \/ <<d[1]>> \in dirs }

\* C1: a dry run changes neither the dataset tree nor the backup tree, with or
\* without a backup path, and the total it reports is the number of
\* valid-extension files the classifier flags.
C1_DryRunChangesNothing ==
    dry_run =>
        /\ files = files0
        /\ bkFiles = bkFiles0
        /\ bkDirs = bkDirs0
        /\ pc # "aborted"
        /\ pc = "done" =>
              /\ total_removed = Cardinality(Flagged(files0))
              /\ DatasetSummary(Cardinality(ImageFiles(files0)),
                                Cardinality(Flagged(files0))) \in stdout

C1_Witness ==
    /\ dry_run
    /\ backup_folder # "None"
    /\ bkDirs = {}
    /\ pc = "done"
    /\ total_removed = 2

\* C2: after a completed run that is not a dry run, no flagged file is left at
\* its path in the dataset; with a backup path it is at
\* backup/split/category/name, without one the backup tree is untouched.
C2_FlaggedFilesGone ==
    (pc = "done" /\ ~dry_run) =>
        \A e \in Flagged(files0) :
            /\ ~\E f \in files : SamePath(f, e)
            /\ IF backup_folder # "None"
               THEN /\ \E b \in bkFiles : SamePath(b, e) /\ b.content = e.content
                    /\ <<e.split, e.category>> \in bkDirs
               ELSE bkFiles = bkFiles0 /\ bkDirs = bkDirs0

C2_Witness ==
    /\ pc = "done"
    /\ ~dry_run
    /\ backup_folder # "None"
    /\ Cardinality(Flagged(files0)) = 2
    /\ Cardinality(bkFiles) = 2

\* C3 (as claimed): a file that was in the backup tree when the run started is
\* still there with its content, whatever is moved to its path.
C3_BackupNeverOverwritten == \A b \in bkFiles0 : b \in bkFiles

\* C4 (as claimed): a failing move or delete does not end the run; the run
\* ends only with the dataset summary printed, every valid-extension file
\* having been classified.
C4_FailureDoesNotAbort ==
    pc \in {"done", "aborted"} =>
        \E l \in stdout :
            /\ l.kind = "dataset_summary"
            /\ l.processed = Cardinality(ImageFiles(files0))

\* C5: on a decodable image is_grayscale returns true exactly when each of the
\* first min(100, n) pixels has equal channels after conversion to RGB; a
\* pixel at raster position 100 or beyond never changes the result.
C5_GrayscaleIsFirstHundred ==
    (returned /\ img.decodable) =>
        (result <=>
            \A k \in 1..Len(img.data) :
                k <= 100 =>
                    LET px == ConvertPixel(img.mode, img.data[k])
                    IN px[1] = px[2] /\ px[2] = px[3])

C5_Witness ==
    /\ returned
    /\ result
    /\ img.decodable
    /\ img.mode = "RGB"
    /\ Len(img.data) = 151
    /\ img.data[151][1] # img.data[151][2]
    /\ \A k \in 1..150 : img.data[k][1] = img.data[k][2] /\ img.data[k][2] = img.data[k][3]

\* C6: is_grayscale returns false on an image that cannot be decoded, and
\* process_dataset counts such a file as processed and leaves it in place: it
\* is neither deleted nor moved nor reported, in any mode.
C6_DecodeFailureKeepsFile ==
    /\ (returned /\ ~img.decodable) => ~result
    /\ \A e \in ImageFiles(files0) :
          ~e.content.decodable =>
              /\ e \in files
              /\ ~ActionLineFor(e)
              /\ ~\E b \in bkFiles \ bkFiles0 : SamePath(b, e)
              /\ pc = "done" =>
                    \E l \in stdout :
                        /\ l.kind = "summary"
                        /\ l.split = e.split
                        /\ l.category = e.category
                        /\ l.processed =
                              Cardinality(ImageFiles(InDir(files0, e.split, e.category)))

C6_Witness ==
    /\ pc = "done"
    /\ ~dry_run
    /\ returned
    /\ ~img.decodable
    /\ \E e \in ImageFiles(files0) : ~e.content.decodable
    /\ Flagged(files0) # {}

\* Whether directory d of the backup tree is backup/split/category of e, or
\* above it.
Holds(d, e) == d \in { <<>>, <<e.split>>, <<e.split, e.category>> }

\* C7 (as claimed): every directory created under the backup path, the root
\* included, is one a grayscale image is moved into.
C7_BackupTreeFullyLazy ==
    \A d \in bkDirs \ bkDirs0 : \E e \in Flagged(files0) : Holds(d, e)

\* C7 (amended): the split and category directories of the backup tree are
\* created only when a grayscale image is moved into them; the backup root is
\* created at the start of every run that has a backup path and is not a dry
\* run; a dry run and a run without backup path create no directory.
C7_BackupSubdirsLazy ==
    /\ \A d \in bkDirs \ bkDirs0 :
          \/ d = <<>> /\ ~dry_run /\ backup_folder # "None"
          \/ \E e \in Flagged(files0) :
                /\ Holds(d, e)
                /\ \E b \in bkFiles : SamePath(b, e) /\ b.content = e.content
    /\ (pc # "start" /\ ~dry_run /\ backup_folder # "None") => <<>> \in bkDirs
    /\ (dry_run \/ backup_folder = "None") => bkDirs = bkDirs0

C7_Witness ==
    /\ pc = "done"
    /\ ~dry_run
    /\ backup_folder # "None"
    /\ ImageFiles(files0) # {}
    /\ Flagged(files0) = {}
    /\ bkDirs0 = {}
    /\ bkDirs = { <<>> }

\* C8: a missing split or category directory gets a warning and never ends
\* the run; a run that completes has printed the summary of every category
\* directory that exists, with the counts of that directory, and totals that
\* are the sums over the existing directories.
C8_MissingDirsSkipped ==
    /\ { <<l.split>> : l \in { w \in stdout : w.kind = "warning" /\ w.category = "-" } }
          \cup { <<l.split, l.category>> :
                    l \in { w \in stdout : w.kind = "warning" /\ w.category # "-" } }
          \subseteq MissingDirs
    /\ pc = "aborted" => \E e \in Flagged(files0) : e.locked /\ ActionLineFor(e)
    /\ pc = "done" =>
          /\ \A d \in MissingDirs :
                Line("warning", d[1], IF Len(d) = 2 THEN d[2] ELSE "-", <<>>, 0, 0)
                    \in stdout
          /\ { l \in stdout : l.kind = "summary" }
                = { Line("summary", d[1], d[2], <<>>,
                         Cardinality(ImageFiles(InDir(files0, d[1], d[2]))),
                         Cardinality(Flagged(InDir(files0, d[1], d[2])))) :
                      d \in VisitableDirs }
          /\ total_processed = Cardinality(ImageFiles(files0))
          /\ total_removed = Cardinality(Flagged(files0))
          /\ DatasetSummary(total_processed, total_removed) \in stdout

C8_Witness ==
    /\ pc = "done"
    /\ <<"train">> \notin dirs
    /\ total_processed = 2
    /\ total_removed = 1

\* C9: a run without backup path, not a dry run, that follows a completed run
\* of the same kind flags no file, changes nothing, and reports as processed
\* the valid-extension files the first run left.
C9_SecondRunIsNoOp ==
    (run > 1 /\ prevCompleted /\ backup_folder = "None" /\ ~dry_run) =>
        /\ files = files0
        /\ bkFiles = bkFiles0
        /\ bkDirs = bkDirs0
        /\ category_removed = 0
        /\ total_removed = 0
        /\ ActionLines = {}
        /\ pc # "aborted"
        /\ pc = "done" =>
              DatasetSummary(Cardinality(ImageFiles(files0)), 0) \in stdout

C9_Witness ==
    /\ run = 2
    /\ prevCompleted
    /\ prevRemoved > 0
    /\ backup_folder = "None"
    /\ ~dry_run
    /\ pc = "done"
    /\ total_processed > 0

\* C10: in every mode an entry that is a sub-directory, a file without a
\* valid image extension, or an image classified not grayscale stays where it
\* is, is reported in no action line, and is not counted as flagged.
C10_OtherEntriesKept ==
    /\ \A e \in files0 \ Flagged(files0) : e \in files /\ ~ActionLineFor(e)
    /\ Cardinality(ActionLines)
          = total_removed + (IF pc \in {"file", "aborted"} THEN category_removed ELSE 0)
    /\ Cardinality(ActionLines) <= Cardinality(Flagged(files0))

C10_Witness ==
    /\ pc = "done"
    /\ ~dry_run
    /\ total_removed = 1
    /\ \E e \in files :
          /\ e.kind = "dir"
          /\ lower(splitext(e.name)) = <<".", "p", "n", "g">>
          /\ e.content = GrayImg

====
